---- MODULE Spec2Model ----
(***************************************************************************)
(* Model of the session registry of src/src/api/lib.py: the api_keys and   *)
(* demo_sessions tables, the large-object store, and the operations that   *)
(* read and write them.  Every SQL statement of lib.py is an operator on   *)
(* the table it touches; the request handlers that call them are actions.  *)
(***************************************************************************)
EXTENDS Integers, Sequences, FiniteSets, TLC

\* ---------------------------------------------------------------- bounds
MaxKeys == 2          \* api keys ever generated (uuid4 values 1..MaxKeys)
MaxTime == 1          \* timestamps are 0..MaxTime
MaxOid  == 1          \* large-object ids are 1..MaxOid

SteamIds   == {"u1"}
SessionIds == {"s1", "s2"}
SessionOrder == <<"s1", "s2">>
Keys       == 1..MaxKeys
Times      == 0..MaxTime
Oids       == 1..MaxOid
Bytes      == {"b1"}
Faults     == {"none", "blob", "row"}
Procs      == {1, 2}

\* SQL NULL / Python None, and a present value of a nullable column
None    == <<>>
Some(x) == <<x>>

VARIABLES
    api_keys,       \* table api_keys: a set of rows [steam_id, api_key]
                    \* (created_at, updated_at are written once and never read)
    demo_sessions,  \* table demo_sessions: session_id -> row (committed state)
    blobs,          \* oids of the large objects that are committed, fully written
    nextKey,        \* the next value the uuid generator returns
    stage,          \* position in the late-bytes scenario (0 outside it)
    pc,             \* per concurrent StartSession request: its position
    args,           \* per concurrent StartSession request: its arguments
    analysis,       \* table analysis: a set of rows
                    \* [session_id, target_steam_id, detection_count]
    reviews,        \* table reviews: a set of rows
                    \* [session_id, target_steam_id, reviewer_steam_id, verdict]
    path_args,      \* the session ids _make_demo_path is applied to
    path_result     \* the paths it returned for them (None before the call)

vars == <<api_keys, demo_sessions, blobs, nextKey, stage, pc, args,
          analysis, reviews, path_args, path_result>>

\* ------------------------------------------------------------ api_keys

\* a plausible slip: the early return on an empty result lost
_check_key_exists_Always(keys, api_key) ==
    TRUE

\* SELECT * FROM api_keys WHERE api_key = :api_key; bool of the rows
_check_key_exists(keys, api_key) ==
    {r \in keys : r.api_key = api_key} # {}

\* a plausible slip: the lookup by a column that never matches
check_steam_id_has_api_key_None(keys, steam_id) ==
    None

\* SELECT api_key FROM api_keys WHERE steam_id = :steam_id (scalar or None)
check_steam_id_has_api_key(keys, steam_id) ==
    IF \E r \in keys : r.steam_id = steam_id
    THEN Some((CHOOSE r \in keys : r.steam_id = steam_id).api_key)
    ELSE None

\* INSERT INTO api_keys (steam_id, api_key, ...)
provision_api_key(keys, steam_id, api_key) ==
    keys \cup {[steam_id |-> steam_id, api_key |-> api_key]}

\* a plausible slip: the new key is inserted as a new row, the old one stays
update_api_key_Insert(keys, steam_id, new_api_key) ==
    keys \cup {[steam_id |-> steam_id, api_key |-> new_api_key]}

\* UPDATE api_keys SET api_key = :new_api_key WHERE steam_id = :steam_id
update_api_key(keys, steam_id, new_api_key) ==
    {IF r.steam_id = steam_id THEN [r EXCEPT !.api_key = new_api_key] ELSE r
        : r \in keys}

\* uuid4().int: a value never returned before
generate_uuid4_int == nextKey

\* ------------------------------------------------------- demo_sessions

\* the rows of a credential
RowsOf(sessions, api_key) ==
    {s \in DOMAIN sessions : sessions[s].api_key = api_key}

\* a plausible slip: the WHERE clause without "api_key = :api_key"
_check_is_active_AnyKey(sessions, api_key) ==
    {s \in DOMAIN sessions : sessions[s].active} # {}

\* a plausible slip: the emptiness test of the result inverted away
_check_is_active_Never(sessions, api_key) ==
    FALSE

\* SELECT * FROM demo_sessions WHERE api_key = :api_key and active = true
_check_is_active(sessions, api_key) ==
    {s \in RowsOf(sessions, api_key) : sessions[s].active} # {}

\* the row _start_session inserts; the three datetime.now() readings are one.
\* demo_name, fake_ip, map, steam_api_data and ingested are stored as given
\* and read by no operation of lib.py: they are left out.
NewSession(api_key, t) ==
    [api_key    |-> api_key,
     active     |-> TRUE,
     start_time |-> t,
     end_time   |-> None,
     demo_oid   |-> None,
     late_bytes |-> None,
     ingested   |-> FALSE,
     created_at |-> t,
     updated_at |-> t]

\* INSERT INTO demo_sessions (...) VALUES (...); commit
_start_session(sessions, api_key, session_id, t) ==
    [s \in DOMAIN sessions \cup {session_id} |->
        IF s = session_id THEN NewSession(api_key, t) ELSE sessions[s]]

\* a plausible slip: no primary key, the insert replaces the row of the id
PrimaryKeyFree_Always(sessions, session_id) ==
    TRUE

\* session_id is the key the analysis and reviews tables reference
PrimaryKeyFree(sessions, session_id) ==
    session_id \notin DOMAIN sessions

\* a plausible slip: the WHERE clause without "active = True"
_close_session_AllRows(sessions, api_key, current_time) ==
    [s \in DOMAIN sessions |->
        IF sessions[s].api_key = api_key
        THEN [sessions[s] EXCEPT !.active = FALSE,
                                 !.end_time = Some(current_time),
                                 !.updated_at = current_time]
        ELSE sessions[s]]

\* a plausible slip: end_time left out of the SET list
_close_session_NoEndTime(sessions, api_key, current_time) ==
    [s \in DOMAIN sessions |->
        IF sessions[s].active /\ sessions[s].api_key = api_key
        THEN [sessions[s] EXCEPT !.active = FALSE,
                                 !.updated_at = current_time]
        ELSE sessions[s]]

\* a plausible slip: demo_oid in the SET list, copied from the demo variant
_close_session_SetsOid(sessions, api_key, current_time) ==
    [s \in DOMAIN sessions |->
        IF sessions[s].active /\ sessions[s].api_key = api_key
        THEN [sessions[s] EXCEPT !.active = FALSE,
                                 !.end_time = Some(current_time),
                                 !.demo_oid = Some(1),
                                 !.updated_at = current_time]
        ELSE sessions[s]]

\* UPDATE demo_sessions SET active = False, end_time, updated_at
\* WHERE active = True AND api_key = :api_key; commit
_close_session(sessions, api_key, current_time) ==
    [s \in DOMAIN sessions |->
        IF sessions[s].active /\ sessions[s].api_key = api_key
        THEN [sessions[s] EXCEPT !.active = FALSE,
                                 !.end_time = Some(current_time),
                                 !.updated_at = current_time]
        ELSE sessions[s]]

\* the oid the server gives a new large object: one not in use
NewOid(bs) ==
    CHOOSE o \in Oids : o \notin bs /\ \A p \in Oids : p \notin bs => o <= p

\* UPDATE demo_sessions SET active = False, end_time, demo_oid, updated_at
\* WHERE api_key = :api_key AND session_id = :session_id
CloseWithDemoUpdate(sessions, api_key, session_id, current_time, oid) ==
    [s \in DOMAIN sessions |->
        IF sessions[s].api_key = api_key /\ s = session_id
        THEN [sessions[s] EXCEPT !.active = FALSE,
                                 !.end_time = Some(current_time),
                                 !.demo_oid = Some(oid),
                                 !.updated_at = current_time]
        ELSE sessions[s]]

\* a plausible slip: the oid is taken and the row committed although the
\* import of the demo file failed
_close_session_with_demo_Swallow(sessions, bs, api_key, session_id, current_time, fault) ==
    IF fault = "row"
    THEN [sessions |-> sessions, blobs |-> bs, result |-> "DBError"]
    ELSE [sessions |-> CloseWithDemoUpdate(sessions, api_key, session_id,
                                           current_time, NewOid(bs)),
          blobs    |-> IF fault = "blob" THEN bs ELSE bs \cup {NewOid(bs)},
          result   |-> "ok"]

\* One transaction: lobject(mode="w", new_file=demo_path) imports the demo
\* file as a new large object, then the UPDATE, then commit.  An exception
\* before the commit leaves the with-block without committing: the
\* connection is closed and the transaction, large object included, is
\* rolled back.  The function returns None whatever the UPDATE matched.
_close_session_with_demo(sessions, bs, api_key, session_id, current_time, fault) ==
    IF fault = "blob"
    THEN [sessions |-> sessions, blobs |-> bs, result |-> "BlobWriteFailed"]
    ELSE IF fault = "row"
    THEN [sessions |-> sessions, blobs |-> bs, result |-> "DBError"]
    ELSE [sessions |-> CloseWithDemoUpdate(sessions, api_key, session_id,
                                           current_time, NewOid(bs)),
          blobs    |-> bs \cup {NewOid(bs)},
          result   |-> "ok"]

\* SELECT MAX(updated_at) FROM demo_sessions WHERE api_key = :api_key
MaxUpdatedAt(sessions, api_key) ==
    IF RowsOf(sessions, api_key) = {}
    THEN None
    ELSE Some(CHOOSE t \in Times :
            /\ \E s \in RowsOf(sessions, api_key) : sessions[s].updated_at = t
            /\ \A s \in RowsOf(sessions, api_key) : sessions[s].updated_at <= t)

\* a plausible slip: the MAX(updated_at) subquery left out of the WHERE clause
_late_bytes_AllRows(sessions, api_key, late_bytes, current_time) ==
    [s \in DOMAIN sessions |->
        IF sessions[s].api_key = api_key
        THEN [sessions[s] EXCEPT !.late_bytes = Some(late_bytes),
                                 !.updated_at = current_time]
        ELSE sessions[s]]

\* UPDATE demo_sessions SET late_bytes, updated_at
\* WHERE api_key = :api_key AND updated_at = (SELECT MAX(updated_at) ...)
_late_bytes(sessions, api_key, late_bytes, current_time) ==
    [s \in DOMAIN sessions |->
        IF /\ sessions[s].api_key = api_key
           /\ Some(sessions[s].updated_at) = MaxUpdatedAt(sessions, api_key)
        THEN [sessions[s] EXCEPT !.late_bytes = Some(late_bytes),
                                 !.updated_at = current_time]
        ELSE sessions[s]]

\* SELECT MAX(start_time) FROM demo_sessions WHERE api_key = :api_key
MaxStartTime(sessions, api_key) ==
    IF RowsOf(sessions, api_key) = {}
    THEN None
    ELSE Some(CHOOSE t \in Times :
            /\ \E s \in RowsOf(sessions, api_key) : sessions[s].start_time = t
            /\ \A s \in RowsOf(sessions, api_key) : sessions[s].start_time <= t)

\* SELECT session_id FROM demo_sessions WHERE start_time = (SELECT MAX ...):
\* the outer query names no api_key.  scalar_one_or_none gives None for no
\* row, the value for one row and raises MultipleResultsFound for more.
_get_latest_session_id(sessions, api_key) ==
    LET rows == {s \in DOMAIN sessions :
                    Some(sessions[s].start_time) = MaxStartTime(sessions, api_key)}
    IN IF rows = {}
       THEN [result |-> "ok", value |-> None]
       ELSE IF Cardinality(rows) = 1
       THEN [result |-> "ok", value |-> Some(CHOOSE s \in rows : TRUE)]
       ELSE [result |-> "MultipleResultsFound", value |-> None]

\* the placeholder from_db_row puts in place of the key
Redacted == 0

\* a plausible slip: hide_api_key not honoured
from_db_row_Plain(session_id, row, hide_api_key) ==
    [demo_id |-> session_id] @@ row

\* DemoWrapper(*row), the api_key of the copy overwritten when hide_api_key
from_db_row(session_id, row, hide_api_key) ==
    [demo_id |-> session_id]
        @@ (IF hide_api_key THEN [row EXCEPT !.api_key = Redacted] ELSE row)

\* SELECT * FROM demo_sessions WHERE api_key = :api_key; None for no row,
\* else the rows wrapped with hide_api_key at its default, True
get_user_demo_info(sessions, api_key) ==
    IF RowsOf(sessions, api_key) = {}
    THEN None
    ELSE Some({from_db_row(s, sessions[s], TRUE) : s \in RowsOf(sessions, api_key)})

\* ------------------------------------------------- analysis and reviews

MaxBatch == 2
MaxCount == 4
Players == {"p1", "p2"}
Targets == {"t1", "t2"}
Reviewers == {"r1", "r2"}
Verdicts == {"cheater", "reject"}
Batches == UNION {[1..n -> Players] : n \in 1..MaxBatch}

\* Detection.player, an id within the capture, resolved to a platform identity
Resolve(player) == IF player = "p1" THEN "t1" ELSE "t2"

\* a plausible slip: the table created without its primary key
AnalysisKeyTaken_Never(an, session_id, target) ==
    FALSE

\* PRIMARY KEY (session_id, target_steam_id) of table analysis
AnalysisKeyTaken(an, session_id, target) ==
    \E r \in an : r.session_id = session_id /\ r.target_steam_id = target

\* SUM(detection_count) over a set of analysis rows
RECURSIVE SumCounts(_)
SumCounts(rows) ==
    IF rows = {}
    THEN 0
    ELSE LET r == CHOOSE x \in rows : TRUE
         IN r.detection_count + SumCounts(rows \ {r})

\* detection_count of the records of (session_id, target), summed
DetectionCount(an, session_id, target) ==
    SumCounts({r \in an : r.session_id = session_id /\ r.target_steam_id = target})

\* upsert of one detection: create with detection_count = 1, else increment
UpsertDetection(an, session_id, target) ==
    IF AnalysisKeyTaken(an, session_id, target)
    THEN {IF r.session_id = session_id /\ r.target_steam_id = target
          THEN [r EXCEPT !.detection_count = @ + 1]
          ELSE r : r \in an}
    ELSE an \cup {[session_id |-> session_id, target_steam_id |-> target,
                   detection_count |-> 1]}

\* the detections of a batch applied in order
RECURSIVE ApplyBatch(_, _, _)
ApplyBatch(an, session_id, batch) ==
    IF batch = <<>>
    THEN an
    ELSE ApplyBatch(UpsertDetection(an, session_id, Resolve(Head(batch))),
                    session_id, Tail(batch))

\* how many detections of a batch resolve to a target
RECURSIVE Occurrences(_, _)
Occurrences(batch, target) ==
    IF batch = <<>>
    THEN 0
    ELSE (IF Resolve(Head(batch)) = target THEN 1 ELSE 0)
            + Occurrences(Tail(batch), target)

\* a plausible slip: the table created without its primary key
ReviewKeyTaken_Never(rv, session_id, target, reviewer) ==
    FALSE

\* PRIMARY KEY (session_id, target_steam_id, reviewer_steam_id) of reviews
ReviewKeyTaken(rv, session_id, target, reviewer) ==
    \E r \in rv : /\ r.session_id = session_id
                  /\ r.target_steam_id = target
                  /\ r.reviewer_steam_id = reviewer

\* verdict -> number of review rows of (session_id, target) with it
Tally(rv, session_id, target) ==
    [v \in Verdicts |->
        Cardinality({r \in rv : /\ r.session_id = session_id
                                /\ r.target_steam_id = target
                                /\ r.verdict = v})]

\* ----------------------------------------------------------- demo paths

\* strings are sequences of characters; session ids are the strings of at
\* most MaxIdLen characters over an alphabet with the path separator in it
MaxIdLen == 4
Chars == {"/", "d", "1"}
Strings(n) == UNION {[1..k -> Chars] : k \in 0..n}
PathIds == Strings(MaxIdLen)

\* os.path.expanduser(os.path.join("~/media", "demos")): an absolute
\* directory, here /d
DEMOS_PATH == <<"/", "d">>

\* f"{session_id}.dem"
DemoFileName(session_id) == session_id \o <<".", "d", "e", "m">>

\* os.path.join(a, b) of posixpath: an absolute b discards a; else b is
\* appended, after a separator unless a is empty or ends with one
os_path_join(a, b) ==
    IF Len(b) > 0 /\ Head(b) = "/"
    THEN b
    ELSE IF Len(a) = 0 \/ a[Len(a)] = "/"
    THEN a \o b
    ELSE a \o <<"/">> \o b

\* a plausible slip: the id cut to a fixed width before it is formatted
_make_demo_path_Cut(session_id) ==
    LET n == IF Len(session_id) < Len(DEMOS_PATH)
             THEN Len(session_id)
             ELSE Len(DEMOS_PATH)
    IN os_path_join(DEMOS_PATH, DemoFileName(SubSeq(session_id, 1, n)))

\* return os.path.join(DEMOS_PATH, f"{session_id}.dem")
_make_demo_path(session_id) ==
    os_path_join(DEMOS_PATH, DemoFileName(session_id))

\* readings datetime.now() can return: the server clock does not go back, so
\* a reading is not before any reading already stored
ClockReadings(sessions) ==
    {t \in Times : \A s \in DOMAIN sessions : sessions[s].start_time <= t}

\* ------------------------------------------------------------ handlers
\* A request handler is a function of the tables and the request: the tables
\* it commits and the response it gives.

\* StartSession(apiKey, sessionId, ...): key check, active check, insert
StartSessionCall(keys, sessions, api_key, session_id, t) ==
    IF ~_check_key_exists(keys, api_key)
    THEN [sessions |-> sessions, result |-> "Unauthorized"]
    ELSE IF _check_is_active(sessions, api_key)
    THEN [sessions |-> sessions, result |-> "SessionAlreadyActive"]
    ELSE IF ~PrimaryKeyFree(sessions, session_id)
    THEN [sessions |-> sessions, result |-> "IntegrityError"]
    ELSE [sessions |-> _start_session(sessions, api_key, session_id, t),
          result   |-> "ok"]

\* CloseSession(apiKey, at)
CloseSessionCall(keys, sessions, api_key, current_time) ==
    IF ~_check_key_exists(keys, api_key)
    THEN [sessions |-> sessions, result |-> "Unauthorized"]
    ELSE [sessions |-> _close_session(sessions, api_key, current_time),
          result   |-> "ok"]

\* CloseSessionWithDemo(apiKey, sessionId, at, blob)
CloseSessionWithDemoCall(keys, sessions, bs, api_key, session_id, current_time, fault) ==
    IF ~_check_key_exists(keys, api_key)
    THEN [sessions |-> sessions, blobs |-> bs, result |-> "Unauthorized"]
    ELSE _close_session_with_demo(sessions, bs, api_key, session_id,
                                  current_time, fault)

\* AttachLateBytes(apiKey, trailerBytes, at)
AttachLateBytesCall(keys, sessions, api_key, late_bytes, current_time) ==
    IF ~_check_key_exists(keys, api_key)
    THEN [sessions |-> sessions, result |-> "Unauthorized"]
    ELSE [sessions |-> _late_bytes(sessions, api_key, late_bytes, current_time),
          result   |-> "ok"]

\* Provision(identity)
ProvisionCall(keys, steam_id, new_api_key) ==
    IF check_steam_id_has_api_key(keys, steam_id) # None
    THEN [keys |-> keys, result |-> "AlreadyProvisioned"]
    ELSE [keys |-> provision_api_key(keys, steam_id, new_api_key),
          result |-> "ok"]

\* Rotate(identity)
RotateCall(keys, steam_id, new_api_key) ==
    IF check_steam_id_has_api_key(keys, steam_id) = None
    THEN [keys |-> keys, result |-> "NotFound"]
    ELSE [keys |-> update_api_key(keys, steam_id, new_api_key),
          result |-> "ok"]

\* Ingest: NotFound for an unknown session; else every detection upserted
\* and the session marked ingested
IngestCall(sessions, an, session_id, batch) ==
    IF session_id \notin DOMAIN sessions
    THEN [sessions |-> sessions, analysis |-> an, result |-> "NotFound"]
    ELSE [sessions |-> [sessions EXCEPT ![session_id].ingested = TRUE],
          analysis |-> ApplyBatch(an, session_id, batch),
          result   |-> "ok"]

\* SubmitVerdict: DuplicateReview for a second row of the same reviewer on
\* the same subject, UnknownSubject without an analysis record
SubmitVerdictCall(an, rv, session_id, target, reviewer, verdict) ==
    IF ReviewKeyTaken(rv, session_id, target, reviewer)
    THEN [reviews |-> rv, result |-> "DuplicateReview"]
    ELSE IF ~AnalysisKeyTaken(an, session_id, target)
    THEN [reviews |-> rv, result |-> "UnknownSubject"]
    ELSE [reviews |-> rv \cup {[session_id        |-> session_id,
                                 target_steam_id   |-> target,
                                 reviewer_steam_id |-> reviewer,
                                 verdict           |-> verdict]},
          result  |-> "ok"]

\* ------------------------------------------------------------- actions

Init ==
    /\ api_keys = {}
    /\ demo_sessions = <<>>
    /\ blobs = {}
    /\ nextKey = 1
    /\ stage = 0
    /\ pc = [p \in Procs |-> "idle"]
    /\ args = [p \in Procs |-> None]
    /\ analysis = {}
    /\ reviews = {}
    /\ path_args = None
    /\ path_result = None

\* a key is generated only once the identity check has passed
Provision(steam_id) ==
    LET r == ProvisionCall(api_keys, steam_id, generate_uuid4_int)
    IN /\ nextKey <= MaxKeys
       /\ api_keys' = r.keys
       /\ nextKey' = IF r.result = "ok" THEN nextKey + 1 ELSE nextKey
       /\ UNCHANGED <<demo_sessions, blobs>>

Rotate(steam_id) ==
    LET r == RotateCall(api_keys, steam_id, generate_uuid4_int)
    IN /\ nextKey <= MaxKeys
       /\ api_keys' = r.keys
       /\ nextKey' = IF r.result = "ok" THEN nextKey + 1 ELSE nextKey
       /\ UNCHANGED <<demo_sessions, blobs>>

StartSession(api_key, session_id, t) ==
    /\ t \in ClockReadings(demo_sessions)
    /\ demo_sessions' =
          StartSessionCall(api_keys, demo_sessions, api_key, session_id, t).sessions
    /\ UNCHANGED <<api_keys, blobs, nextKey>>

CloseSession(api_key, current_time) ==
    /\ demo_sessions' =
          CloseSessionCall(api_keys, demo_sessions, api_key, current_time).sessions
    /\ UNCHANGED <<api_keys, blobs, nextKey>>

CloseSessionWithDemo(api_key, session_id, current_time, fault) ==
    /\ blobs # Oids
    /\ LET tx == CloseSessionWithDemoCall(api_keys, demo_sessions, blobs, api_key,
                                          session_id, current_time, fault)
       IN /\ demo_sessions' = tx.sessions
          /\ blobs' = tx.blobs
    /\ UNCHANGED <<api_keys, nextKey>>

AttachLateBytes(api_key, late_bytes, current_time) ==
    /\ demo_sessions' =
          AttachLateBytesCall(api_keys, demo_sessions, api_key, late_bytes,
                              current_time).sessions
    /\ UNCHANGED <<api_keys, blobs, nextKey>>

\* Session ids are opaque: new ones are taken in a fixed order, which leaves
\* out only states that differ from a reachable one by renaming.
Least(S, order) ==
    {order[i] : i \in {j \in 1..Len(order) :
                        order[j] \in S /\ \A m \in 1..(j-1) : order[m] \notin S}}
UsableSessionIds ==
    DOMAIN demo_sessions \cup Least(SessionIds \ DOMAIN demo_sessions, SessionOrder)

\* requests served one after the other
Serial ==
    UNCHANGED <<stage, pc, args, analysis, reviews, path_args, path_result>>

DoProvision == Serial /\ \E u \in SteamIds : Provision(u)
DoRotate == Serial /\ \E u \in SteamIds : Rotate(u)
DoStartSession ==
    Serial /\ \E k \in Keys, sid \in UsableSessionIds, t \in Times : StartSession(k, sid, t)
DoCloseSession == Serial /\ \E k \in Keys, t \in Times : CloseSession(k, t)
DoCloseSessionWithDemo ==
    Serial /\ \E k \in Keys, sid \in SessionIds, t \in Times, f \in Faults :
              CloseSessionWithDemo(k, sid, t, f)
DoAttachLateBytes ==
    Serial /\ \E k \in Keys, b \in Bytes, t \in Times : AttachLateBytes(k, b, t)

Next ==
    \/ DoProvision
    \/ DoRotate
    \/ DoStartSession
    \/ DoCloseSession
    \/ DoCloseSessionWithDemo
    \/ DoAttachLateBytes

Spec == Init /\ [][Next]_vars

\* ------------------------------------------- ingestion and review

\* detection_count is kept within MaxCount
Ingest(session_id, batch) ==
    LET r == IngestCall(demo_sessions, analysis, session_id, batch)
    IN /\ \A row \in r.analysis : row.detection_count <= MaxCount
       /\ demo_sessions' = r.sessions
       /\ analysis' = r.analysis
       /\ UNCHANGED <<api_keys, blobs, nextKey, stage, pc, args,
                      reviews, path_args, path_result>>

SubmitVerdict(session_id, target, reviewer, verdict) ==
    /\ reviews' = SubmitVerdictCall(analysis, reviews, session_id, target,
                                    reviewer, verdict).reviews
    /\ UNCHANGED <<api_keys, demo_sessions, blobs, nextKey, stage, pc, args,
                   analysis, path_args, path_result>>

DoIngest == \E sid \in SessionIds, b \in Batches : Ingest(sid, b)
DoSubmitVerdict ==
    \E sid \in SessionIds, t \in Targets, rev \in Reviewers, v \in Verdicts :
        SubmitVerdict(sid, t, rev, v)

NextAnalysis ==
    \/ DoProvision
    \/ DoStartSession
    \/ DoIngest
    \/ DoSubmitVerdict

SpecAnalysis == Init /\ [][NextAnalysis]_vars

\* --------------------------------------------- demo paths of two ids

InitPath ==
    /\ api_keys = {}
    /\ demo_sessions = <<>>
    /\ blobs = {}
    /\ nextKey = 1
    /\ stage = 0
    /\ pc = [p \in Procs |-> "idle"]
    /\ args = [p \in Procs |-> None]
    /\ analysis = {}
    /\ reviews = {}
    /\ path_args \in {Some(ids) : ids \in PathIds \X PathIds}
    /\ path_result = None

MakeDemoPaths ==
    /\ path_args # None
    /\ path_result = None
    /\ path_result' = Some(<<_make_demo_path(path_args[1][1]),
                             _make_demo_path(path_args[1][2])>>)
    /\ UNCHANGED <<api_keys, demo_sessions, blobs, nextKey, stage, pc, args,
                   analysis, reviews, path_args>>

NextPath == MakeDemoPaths

SpecPath == InitPath /\ [][NextPath]_vars

\* ------------------------------------------- concurrent StartSession
\* Two StartSession requests in flight.  The key check, the active check and
\* the insert each run on a connection of their own, so each is one step and
\* steps of the two requests interleave.

Begin(p, api_key, session_id) ==
    /\ pc[p] = "idle"
    /\ pc' = [pc EXCEPT ![p] = "check_key"]
    /\ args' = [args EXCEPT ![p] = [api_key |-> api_key, session_id |-> session_id]]
    /\ UNCHANGED <<api_keys, demo_sessions, blobs, nextKey, stage>>
    /\ UNCHANGED <<analysis, reviews, path_args, path_result>>

CheckKey(p) ==
    /\ pc[p] = "check_key"
    /\ pc' = [pc EXCEPT ![p] = IF _check_key_exists(api_keys, args[p].api_key)
                               THEN "check_active" ELSE "Unauthorized"]
    /\ UNCHANGED <<api_keys, demo_sessions, blobs, nextKey, stage, args>>
    /\ UNCHANGED <<analysis, reviews, path_args, path_result>>

CheckActive(p) ==
    /\ pc[p] = "check_active"
    /\ pc' = [pc EXCEPT ![p] = IF _check_is_active(demo_sessions, args[p].api_key)
                               THEN "SessionAlreadyActive" ELSE "insert"]
    /\ UNCHANGED <<api_keys, demo_sessions, blobs, nextKey, stage, args>>
    /\ UNCHANGED <<analysis, reviews, path_args, path_result>>

Insert(p, t) ==
    /\ pc[p] = "insert"
    /\ t \in ClockReadings(demo_sessions)
    /\ IF PrimaryKeyFree(demo_sessions, args[p].session_id)
       THEN /\ demo_sessions' = _start_session(demo_sessions, args[p].api_key,
                                               args[p].session_id, t)
            /\ pc' = [pc EXCEPT ![p] = "ok"]
       ELSE /\ UNCHANGED demo_sessions
            /\ pc' = [pc EXCEPT ![p] = "IntegrityError"]
    /\ UNCHANGED <<api_keys, blobs, nextKey, stage, args>>
    /\ UNCHANGED <<analysis, reviews, path_args, path_result>>

DoBegin == \E p \in Procs, k \in Keys, sid \in SessionIds : Begin(p, k, sid)
DoCheckKey == \E p \in Procs : CheckKey(p)
DoCheckActive == \E p \in Procs : CheckActive(p)
DoInsert == \E p \in Procs, t \in Times : Insert(p, t)

NextConc ==
    \/ DoProvision
    \/ DoRotate
    \/ DoCloseSession
    \/ DoBegin
    \/ DoCheckKey
    \/ DoCheckActive
    \/ DoInsert

SpecConc == Init /\ [][NextConc]_vars

\* ------------------------------------------------ late-bytes scenario
\* One credential: Provision, StartSession(s1), a close of s1, StartSession(s2),
\* a close of s2, AttachLateBytes; the times are the callers' and the clock's.

TheKey == CHOOSE k \in Keys : \A r \in api_keys : r.api_key = k

Advance(n) ==
    /\ stage = n
    /\ stage' = n + 1
    /\ UNCHANGED <<pc, args, analysis, reviews, path_args, path_result>>

CloseEither(session_id, t) ==
    \/ CloseSession(TheKey, t)
    \/ CloseSessionWithDemo(TheKey, session_id, t, "none")

ScProvision == Advance(0) /\ \E u \in SteamIds : Provision(u)
ScStart1 == Advance(1) /\ \E t \in Times : StartSession(TheKey, "s1", t)
ScClose1 == Advance(2) /\ \E t \in Times : CloseEither("s1", t)
ScStart2 == Advance(3) /\ \E t \in Times : StartSession(TheKey, "s2", t)
ScClose2 == Advance(4) /\ \E t \in Times : CloseEither("s2", t)
ScLateBytes == Advance(5) /\ \E b \in Bytes, t \in Times : AttachLateBytes(TheKey, b, t)

NextC7 ==
    \/ ScProvision
    \/ ScStart1
    \/ ScClose1
    \/ ScStart2
    \/ ScClose2
    \/ ScLateBytes

SpecC7 == Init /\ [][NextC7]_vars

\* ------------------------------------------------------------- claims
\* Claims about one request are stated over every request that can be made
\* in a reachable state: the handler's response and the tables it commits.

Bound(k) == \E r \in api_keys : r.api_key = k
Row(s) == demo_sessions[s]

\* C1 (as claimed): in every reachable state every credential has at most one
\* session with active = true, also when two StartSession requests for the
\* credential interleave their check and their insert.
C1_AtMostOneActive ==
    \A k \in Keys :
        Cardinality({s \in DOMAIN demo_sessions :
                        Row(s).api_key = k /\ Row(s).active}) <= 1

\* C2: served one after the other, a StartSession for a credential that has
\* an active session answers SessionAlreadyActive and inserts no row: the
\* session table after the call is the table before it.
C2_SecondStartRejected ==
    \A k \in Keys, sid \in SessionIds, t \in Times :
        (Bound(k) /\ \E s \in DOMAIN demo_sessions : Row(s).api_key = k /\ Row(s).active)
        => LET r == StartSessionCall(api_keys, demo_sessions, k, sid, t)
           IN r.result = "SessionAlreadyActive" /\ r.sessions = demo_sessions

\* a credential with an active session while a session id is still unused
C2_Witness ==
    \E k \in Keys :
        /\ Bound(k)
        /\ \E s \in DOMAIN demo_sessions : Row(s).api_key = k /\ Row(s).active
        /\ DOMAIN demo_sessions # SessionIds

\* C3: every session transition called with a key bound to no credential
\* answers Unauthorized and leaves the session table (and the blob store)
\* as it was.
C3_UnboundKeyUnauthorized ==
    \A k \in Keys :
        ~Bound(k) =>
            /\ \A sid \in SessionIds, t \in Times :
                   LET r == StartSessionCall(api_keys, demo_sessions, k, sid, t)
                   IN r.result = "Unauthorized" /\ r.sessions = demo_sessions
            /\ \A t \in Times :
                   LET r == CloseSessionCall(api_keys, demo_sessions, k, t)
                   IN r.result = "Unauthorized" /\ r.sessions = demo_sessions
            /\ \A sid \in SessionIds, t \in Times, f \in Faults :
                   blobs # Oids =>
                   LET r == CloseSessionWithDemoCall(api_keys, demo_sessions, blobs,
                                                     k, sid, t, f)
                   IN /\ r.result = "Unauthorized"
                      /\ r.sessions = demo_sessions
                      /\ r.blobs = blobs
            /\ \A b \in Bytes, t \in Times :
                   LET r == AttachLateBytesCall(api_keys, demo_sessions, k, b, t)
                   IN r.result = "Unauthorized" /\ r.sessions = demo_sessions

\* a key that is bound no more still owns an active session, which the SQL
\* of every transition would match
C3_Witness ==
    \E k \in Keys :
        /\ ~Bound(k)
        /\ \E s \in DOMAIN demo_sessions : Row(s).api_key = k /\ Row(s).active
        /\ blobs # Oids

\* the Rotate request of C4, in one state: the old key is out of api_keys and
\* the new one in, StartSession with the old key answers Unauthorized and
\* with the new key does not
C4_RotateStep ==
    \A u \in SteamIds :
        (check_steam_id_has_api_key(api_keys, u) # None /\ nextKey <= MaxKeys) =>
            LET old == check_steam_id_has_api_key(api_keys, u)[1]
                new == generate_uuid4_int
                r   == RotateCall(api_keys, u, new)
            IN /\ r.result = "ok"
               /\ ~_check_key_exists(r.keys, old)
               /\ _check_key_exists(r.keys, new)
               /\ \A sid \in SessionIds, t \in Times :
                    /\ StartSessionCall(r.keys, demo_sessions, old, sid, t).result
                          = "Unauthorized"
                    /\ StartSessionCall(r.keys, demo_sessions, new, sid, t).result
                          # "Unauthorized"

\* C4: after Rotate the key check is false for the old key and true for the
\* new one, StartSession with the old key answers Unauthorized and with the
\* new key does not; and a key that was issued and is bound no more is never
\* bound again, so every later StartSession with it is Unauthorized too.
C4_RotateInvalidatesOldKey ==
    /\ []C4_RotateStep
    /\ [][\A k \in Keys : (k < nextKey /\ ~Bound(k)) =>
              ~(\E r \in api_keys' : r.api_key = k)]_vars

\* a rotation has happened: an issued key is bound no more, another one is
C4_Witness ==
    /\ \E k \in Keys : k < nextKey /\ ~Bound(k)
    /\ \E k \in Keys : Bound(k)

\* C5: in every committed state the blob of every row that has a blobRef is
\* written; a CloseSessionWithDemo whose blob write fails answers
\* BlobWriteFailed and changes no row, one that fails after the blob write
\* changes no row either, and whatever the outcome the rows it commits point
\* at written blobs only.
C5_BlobRefsWritten ==
    /\ \A s \in DOMAIN demo_sessions :
           Row(s).demo_oid # None => Row(s).demo_oid[1] \in blobs
    /\ \A k \in Keys, sid \in SessionIds, t \in Times, f \in Faults :
           blobs # Oids =>
           LET r == CloseSessionWithDemoCall(api_keys, demo_sessions, blobs, k, sid, t, f)
           IN /\ f = "blob" /\ Bound(k) => r.result = "BlobWriteFailed"
              /\ f # "none" => r.sessions = demo_sessions
              /\ \A s \in DOMAIN r.sessions :
                     r.sessions[s].demo_oid # None
                         => r.sessions[s].demo_oid[1] \in r.blobs

\* a session was closed with a demo: its row has a blobRef
C5_Witness ==
    \E s \in DOMAIN demo_sessions :
        ~Row(s).active /\ Row(s).demo_oid # None

\* C6 (as claimed): CloseSessionWithDemo for a valid key and a session id that
\* matches no row of that key answers NotFound and changes no row.
C6_NotFoundWhenNoRow ==
    \A k \in Keys, sid \in SessionIds, t \in Times :
        (/\ Bound(k)
         /\ blobs # Oids
         /\ ~(sid \in DOMAIN demo_sessions /\ Row(sid).api_key = k))
        => LET r == CloseSessionWithDemoCall(api_keys, demo_sessions, blobs,
                                             k, sid, t, "none")
           IN r.result = "NotFound" /\ r.sessions = demo_sessions

C8_CloseSessionFrame ==
    \A k \in Keys, t \in Times :
        Bound(k) =>
            LET r == CloseSessionCall(api_keys, demo_sessions, k, t)
            IN /\ r.result = "ok"
               /\ DOMAIN r.sessions = DOMAIN demo_sessions
               /\ \A s \in DOMAIN demo_sessions :
                     IF Row(s).api_key = k /\ Row(s).active
                     THEN /\ r.sessions[s].active = FALSE
                          /\ r.sessions[s].end_time = Some(t)
                     ELSE r.sessions[s] = Row(s)
               /\ (~\E s \in DOMAIN demo_sessions : Row(s).api_key = k /\ Row(s).active)
                     => r.sessions = demo_sessions

\* a valid credential owns a session closed by a plain close and an active one
C8_Witness ==
    \E k \in Keys, s1, s2 \in DOMAIN demo_sessions :
        /\ Bound(k)
        /\ Row(s1).api_key = k /\ ~Row(s1).active /\ Row(s1).demo_oid = None
        /\ Row(s2).api_key = k /\ Row(s2).active

\* C9: for every session, endTime is set if and only if active = false.
C9_EndTimeIffClosed ==
    \A s \in DOMAIN demo_sessions :
        (Row(s).end_time # None) <=> (Row(s).active = FALSE)

\* one session closed by a plain close, one closed with a demo
C9_Witness ==
    \E s1, s2 \in DOMAIN demo_sessions :
        /\ ~Row(s1).active /\ Row(s1).demo_oid = None
        /\ ~Row(s2).active /\ Row(s2).demo_oid # None

\* the blobRef of a session id, unset while the session does not exist
OidOf(sessions, s) ==
    IF s \in DOMAIN sessions THEN sessions[s].demo_oid ELSE None

\* C10: a step that changes the blobRef of a session is a CloseSessionWithDemo
\* step for that session; StartSession, CloseSession, AttachLateBytes,
\* Provision and Rotate leave every blobRef as it was, unset for a new row.
C10_BlobRefOnlyByDemoClose ==
    [][\A s \in SessionIds :
          OidOf(demo_sessions', s) # OidOf(demo_sessions, s)
              => \E k \in Keys, t \in Times : CloseSessionWithDemo(k, s, t, "none")]_vars

\* a session closed by a plain close and patched with late bytes
C10_Witness ==
    \E s \in DOMAIN demo_sessions :
        /\ ~Row(s).active
        /\ Row(s).late_bytes # None
        /\ Row(s).demo_oid = None

\* C11: a session that has active = false stays in the table with
\* active = false in every step: no request makes it active again.
C11_ClosedStaysClosed ==
    [][\A s \in DOMAIN demo_sessions :
          ~Row(s).active =>
              s \in DOMAIN demo_sessions' /\ ~demo_sessions'[s].active]_vars

\* a closed session next to a later, active one of the same credential
C11_Witness ==
    \E s1, s2 \in DOMAIN demo_sessions :
        /\ ~Row(s1).active
        /\ Row(s2).active
        /\ Row(s1).api_key = Row(s2).api_key

\* C12 (as claimed): GetLatestSessionId(apiKey) returns None when the
\* credential has no session and else the id of its session with the
\* maximal startTime, a session it owns, also when a session of another
\* credential has that startTime.
C12_LatestIsOwnLatest ==
    \A k \in Keys :
        LET own  == RowsOf(demo_sessions, k)
            best == {s \in own : \A o \in own : Row(o).start_time <= Row(s).start_time}
            r    == _get_latest_session_id(demo_sessions, k)
        IN /\ own = {} => r = [result |-> "ok", value |-> None]
           /\ Cardinality(best) = 1 =>
                 r = [result |-> "ok", value |-> Some(CHOOSE s \in best : TRUE)]

\* C13: Provision for an identity that has a credential answers
\* AlreadyProvisioned and leaves api_keys as it was; every identity has at
\* most one row in api_keys.
C13_OneKeyPerIdentity ==
    /\ \A u \in SteamIds :
           Cardinality({r \in api_keys : r.steam_id = u}) <= 1
    /\ \A u \in SteamIds, k \in Keys :
           (\E r \in api_keys : r.steam_id = u) =>
               ProvisionCall(api_keys, u, k)
                   = [keys |-> api_keys, result |-> "AlreadyProvisioned"]

\* an identity whose credential was rotated: Provision and Rotate have run
C13_Witness ==
    \E r \in api_keys : r.api_key > 1

\* C14: ListSessions(apiKey) returns one record per session of the
\* credential and no other; every record carries the placeholder in place of
\* the key, so no stored key is in the result; the stored rows keep the key.
C14_ListRedacted ==
    \A k \in Keys :
        LET r == get_user_demo_info(demo_sessions, k)
        IN IF RowsOf(demo_sessions, k) = {}
           THEN r = None
           ELSE /\ {d.demo_id : d \in r[1]} = RowsOf(demo_sessions, k)
                /\ Cardinality(r[1]) = Cardinality(RowsOf(demo_sessions, k))
                /\ \A d \in r[1] :
                      /\ d.api_key = Redacted
                      /\ d.api_key \notin Keys
                      /\ [Row(d.demo_id) EXCEPT !.api_key = Redacted]
                            = [f \in DOMAIN Row(d.demo_id) |-> d[f]]
                      /\ Row(d.demo_id).api_key = k

\* two credentials own a session each
C14_Witness ==
    \E s1, s2 \in DOMAIN demo_sessions : Row(s1).api_key # Row(s2).api_key

\* C18 (as claimed): one AttachLateBytes changes at most one row, a row of
\* the given credential, also when sessions share the maximal updatedAt.
C18_AtMostOneRowPatched ==
    \A k \in Keys, b \in Bytes, t \in Times :
        LET r == AttachLateBytesCall(api_keys, demo_sessions, k, b, t)
            changed == {s \in DOMAIN demo_sessions : r.sessions[s] # Row(s)}
        IN /\ Cardinality(changed) <= 1
           /\ \A s \in changed : Row(s).api_key = k

C20_RotateStep ==
    \A k, k2 \in Keys, t \in Times :
        (k # k2 /\ \E s \in DOMAIN demo_sessions : Row(s).api_key = k /\ Row(s).active)
        => /\ _check_is_active(demo_sessions, k2)
                 = (\E s \in DOMAIN demo_sessions : Row(s).api_key = k2 /\ Row(s).active)
           /\ \A s \in RowsOf(demo_sessions, k) :
                 CloseSessionCall(api_keys, demo_sessions, k2, t).sessions[s] = Row(s)

\* C20: the invariant above, and every step that changes api_keys leaves
\* demo_sessions as it was.
C20_RotateLeavesSessions ==
    /\ []C20_RotateStep
    /\ [][api_keys' # api_keys => demo_sessions' = demo_sessions]_vars

\* after a rotation the old key still owns an active session
C20_Witness ==
    \E k, k2 \in Keys :
        /\ ~Bound(k) /\ Bound(k2)
        /\ \E s \in DOMAIN demo_sessions : Row(s).api_key = k /\ Row(s).active
        /\ ~_check_is_active(demo_sessions, k2)

\* the first character of a session id is the path separator
Rooted(id) == Len(id) > 0 /\ Head(id) = "/"

AnalysisRows(an, sid, t) ==
    {r \in an : r.session_id = sid /\ r.target_steam_id = t}

\* C15: in every state there is at most one analysis record per
\* (session, target).  Ingesting a batch for a known session and ingesting
\* the same batch again adds the batch's detections of each target to its
\* record both times: the count after the second ingest exceeds the count
\* after the first by as much as the first raised it, it is twice the count
\* after the first when the first ingest created the record, and each
\* affected target has exactly one record.
C15_Reingest ==
    /\ \A sid \in SessionIds, t \in Targets :
           Cardinality(AnalysisRows(analysis, sid, t)) <= 1
    /\ \A sid \in DOMAIN demo_sessions, b \in Batches, t \in Targets :
           LET a0 == analysis
               a1 == IngestCall(demo_sessions, a0, sid, b).analysis
               a2 == IngestCall(demo_sessions, a1, sid, b).analysis
               c0 == DetectionCount(a0, sid, t)
               c1 == DetectionCount(a1, sid, t)
               c2 == DetectionCount(a2, sid, t)
               n  == Occurrences(b, t)
           IN /\ c1 = c0 + n
              /\ c2 = c1 + n
              /\ (n > 0 /\ c0 = 0) => c2 = 2 * c1
              /\ n > 0 => /\ c2 > c1
                          /\ Cardinality(AnalysisRows(a1, sid, t)) = 1
                          /\ Cardinality(AnalysisRows(a2, sid, t)) = 1

\* C15: the invariant above, and no step lowers the detection count of a
\* record or removes a record.
C15_ReingestDoubles ==
    /\ []C15_Reingest
    /\ [][\A sid \in SessionIds, t \in Targets :
             DetectionCount(analysis', sid, t)
                 >= DetectionCount(analysis, sid, t)]_vars

\* ingestion has run more than once for a session and both targets
C15_Witness ==
    \E sid \in DOMAIN demo_sessions :
        /\ Row(sid).ingested
        /\ \A t \in Targets : DetectionCount(analysis, sid, t) > 1

\* C16: when a reviewer has a review of (session, target), SubmitVerdict
\* of that reviewer for it, with any verdict, answers DuplicateReview and
\* leaves the reviews table, hence the tally and the first verdict, as is;
\* there is at most one review per (session, target, reviewer).
C16_DuplicateReview ==
    /\ \A sid \in SessionIds, t \in Targets, rev \in Reviewers :
           Cardinality({r \in reviews : /\ r.session_id = sid
                                         /\ r.target_steam_id = t
                                         /\ r.reviewer_steam_id = rev}) <= 1
    /\ \A r \in reviews, v \in Verdicts :
           LET out == SubmitVerdictCall(analysis, reviews, r.session_id,
                                        r.target_steam_id, r.reviewer_steam_id, v)
           IN /\ out.result = "DuplicateReview"
              /\ Tally(out.reviews, r.session_id, r.target_steam_id)
                    = Tally(reviews, r.session_id, r.target_steam_id)
              /\ r \in out.reviews

\* two reviewers have given different verdicts on one subject
C16_Witness ==
    \E r1, r2 \in reviews :
        /\ r1.session_id = r2.session_id
        /\ r1.target_steam_id = r2.target_steam_id
        /\ r1.reviewer_steam_id # r2.reviewer_steam_id
        /\ r1.verdict # r2.verdict

====
